---- MODULE Spec2Model ----
(***************************************************************************)
(* Model of openclaw_assistant/oc_config_helper.py: the read-modify-write  *)
(* merge of gateway and memory settings into openclaw.json.                *)
(*                                                                         *)
(* The state is the config file on disk plus a record of the last call     *)
(* (its arguments, the file it started from, and how it ended).  Each      *)
(* action is one whole call of a function of the helper.                   *)
(***************************************************************************)
EXTENDS Integers, Sequences, FiniteSets, TLC

VARIABLES
    file,   \* the file at CONFIG_PATH
    last,   \* the last call: arguments, starting file, outcome
    nops,   \* number of calls made so far
    proc,   \* the last process run from the command line: output and exit
    race    \* two invocations that may overlap: where each one is

vars == <<file, last, nops, proc, race>>

(***************************************************************************)
(* JSON / Python values.  Every value is tagged with its type, so that     *)
(* values of different types can sit under the same key and be compared.   *)
(* A float carries its value in hundredths (0.35 is JFlt(35)).             *)
(***************************************************************************)
JStr(s) == [t |-> "str", v |-> s]
JInt(n) == [t |-> "int", v |-> n]
JBool(b) == [t |-> "bool", v |-> b]
JFlt(h) == [t |-> "float", v |-> h]
JMap(f) == [t |-> "map", v |-> f]
JList(s) == [t |-> "list", v |-> s]
\* Python None, which is also what JSON null parses to
None == [t |-> "null", v |-> "null"]
\* a raised exception (TypeError, AttributeError, KeyError): it propagates
\* through every later step of the call
Err == [t |-> "error", v |-> "raised"]
EmptyMap == JMap([k \in {} |-> None])

IsMap(x) == x.t = "map"
IsNum(x) == x.t \in {"int", "bool", "float"}

\* the number a Python int, bool or float stands for, in hundredths
PyNum(x) ==
    IF x.t = "int" THEN x.v * 100
    ELSE IF x.t = "bool" THEN (IF x.v THEN 100 ELSE 0)
    ELSE x.v

\* Python ==: numbers compare by value across int, bool and float
\* (True == 1, 0 == False, 6.0 == 6); dicts and lists compare element-wise
RECURSIVE PyEq(_, _)
PyEq(a, b) ==
    IF IsNum(a) /\ IsNum(b) THEN PyNum(a) = PyNum(b)
    ELSE IF a.t # b.t THEN FALSE
    ELSE IF a.t = "map"
        THEN /\ DOMAIN a.v = DOMAIN b.v
             /\ \A k \in DOMAIN a.v : PyEq(a.v[k], b.v[k])
    ELSE IF a.t = "list"
        THEN /\ Len(a.v) = Len(b.v)
             /\ \A i \in 1..Len(a.v) : PyEq(a.v[i], b.v[i])
    ELSE a = b

\* Python truthiness of a value (`if x:` / `if not x:`)
Truthy(x) ==
    IF x.t = "map" THEN DOMAIN x.v # {}
    ELSE IF x.t = "list" THEN Len(x.v) > 0
    ELSE IF x.t = "str" THEN x.v # ""
    ELSE IF x.t = "null" THEN FALSE
    ELSE PyNum(x) # 0

\* `k in c` is defined for dicts, strings and lists; anything else raises
PyIterable(c) == c.t \in {"map", "str", "list"}

\* `k in c` for a string key k.  For a string c it is the substring test;
\* no string of the model properly contains a key, so it is equality.
PyIn(k, c) ==
    IF c.t = "map" THEN k \in DOMAIN c.v
    ELSE IF c.t = "str" THEN c.v = k
    ELSE IF c.t = "list" THEN \E i \in 1..Len(c.v) : c.v[i] = JStr(k)
    ELSE FALSE

\* c[k]: only a dict holding k yields a value
PyGetItem(c, k) ==
    IF c.t = "map" /\ k \in DOMAIN c.v THEN c.v[k] ELSE Err

\* c[k] = x: only a dict supports it
PySetItem(c, k, x) ==
    IF x = Err \/ c.t # "map" THEN Err
    ELSE JMap([kk \in DOMAIN c.v \cup {k} |-> IF kk = k THEN x ELSE c.v[kk]])

\* del c[k]
PyDelItem(c, k) ==
    IF c.t = "map" /\ k \in DOMAIN c.v
    THEN JMap([kk \in DOMAIN c.v \ {k} |-> c.v[kk]])
    ELSE Err

\* c.get(k, d): only a dict has the method
PyGet(c, k, d) ==
    IF c.t # "map" THEN Err
    ELSE IF k \in DOMAIN c.v THEN c.v[k] ELSE d

\* the value at a path of keys, Err when a step of the path cannot be taken
RECURSIVE GetPath(_, _)
GetPath(doc, p) ==
    IF p = <<>> THEN doc
    ELSE GetPath(PyGetItem(doc, Head(p)), Tail(p))

\* the document with the value at a path replaced (the in-place mutation of
\* a nested dict that the caller reaches through its parents)
RECURSIVE SetPath(_, _, _)
SetPath(doc, p, x) ==
    IF p = <<>> THEN x
    ELSE PySetItem(doc, Head(p), SetPath(PyGetItem(doc, Head(p)), Tail(p), x))

\* whether every step of a path exists
HasPath(doc, p) == GetPath(doc, p) # Err

(***************************************************************************)
(* Document Store                                                          *)
(***************************************************************************)
\* The file states: no file; a file that is not JSON text; a file whose
\* bytes are not UTF-8; a file holding a JSON value, in the formatting of
\* write_config ("indent2") or another one ("other").
MissingFile == [state |-> "missing", fmt |-> "none", doc |-> None]
CorruptFile == [state |-> "corrupt", fmt |-> "none", doc |-> None]
UndecodableFile == [state |-> "undecodable", fmt |-> "none", doc |-> None]
JsonFile(fmt, doc) == [state |-> "json", fmt |-> fmt, doc |-> doc]

\* read_config: None for a missing file and for text that is not JSON (the
\* JSONDecodeError is caught and reported); the parsed value otherwise.
\* A UnicodeDecodeError is neither a JSONDecodeError nor an IOError: raised.
read_config(f) ==
    IF f.state = "missing" THEN None
    ELSE IF f.state = "corrupt" THEN None
    ELSE IF f.state = "undecodable" THEN Err
    ELSE f.doc

\* the outcomes of the file system at a write: it succeeds; it fails before
\* the file is opened (mkdir or open raises); it fails after the open has
\* truncated the file
IoOutcomes == {"ok", "fail", "trunc"}

\* write_config: the file after the call and the value returned
write_config(cfg, f, io) ==
    IF io = "ok" THEN [file |-> JsonFile("indent2", cfg), ok |-> TRUE]
    ELSE IF io = "fail" THEN [file |-> f, ok |-> FALSE]
    ELSE [file |-> CorruptFile, ok |-> FALSE]

\* `cfg = read_config(); if cfg is None: cfg = {}`
config_or_empty(f) ==
    IF read_config(f) = None THEN EmptyMap ELSE read_config(f)

\* a variant that resets the container even when it is there
EnsureMapping_Reset(cfg, p, key) ==
    LET c == GetPath(cfg, p) IN
    IF cfg = Err \/ c = Err \/ ~PyIterable(c) THEN Err
    ELSE SetPath(cfg, p \o <<key>>, EmptyMap)

\* `if key not in c: c[key] = {}` on the container at path p of cfg
EnsureMapping(cfg, p, key) ==
    LET c == GetPath(cfg, p) IN
    IF cfg = Err \/ c = Err \/ ~PyIterable(c) THEN Err
    ELSE IF PyIn(key, c) THEN cfg
    ELSE SetPath(cfg, p \o <<key>>, EmptyMap)

\* What a call has decided when it reaches its write: "invalid" arguments
\* were refused; "crash" an exception left the function; "nochange" there
\* is nothing to write; "write" the document cfg is to be written.
Plan(stage, cfg, changes) == [stage |-> stage, cfg |-> cfg, changes |-> changes]

\* a variant that writes whether or not anything changed
plan_of_AlwaysWrite(cfg, changes) ==
    IF cfg = Err THEN Plan("crash", Err, <<>>)
    ELSE Plan("write", cfg, changes)

\* the end of both apply functions: write when the change list is not empty
plan_of(cfg, changes) ==
    IF cfg = Err THEN Plan("crash", Err, <<>>)
    ELSE IF changes # <<>> THEN Plan("write", cfg, changes)
    ELSE Plan("nochange", cfg, changes)

\* the outcomes of the file system that a plan can meet
IoOf(plan) == IF plan.stage = "write" THEN IoOutcomes ELSE {"ok"}

\* a variant that returns success whether or not the write succeeded
finish_AlwaysSuccess(plan, f, io) ==
    IF plan.stage = "write"
    THEN LET w == write_config(plan.cfg, f, io) IN
         [outcome |-> IF w.ok THEN "written" ELSE "writefail",
          file |-> w.file, result |-> TRUE, changes |-> plan.changes]
    ELSE [outcome |-> plan.stage, file |-> f,
          result |-> plan.stage = "nochange", changes |-> plan.changes]

\* the call's end on file f: the file afterwards, the value returned, and
\*   outcome: "invalid", "crash", "nochange" (success without a write),
\*   "written", "writefail"
finish(plan, f, io) ==
    IF plan.stage = "write"
    THEN LET w == write_config(plan.cfg, f, io) IN
         [outcome |-> IF w.ok THEN "written" ELSE "writefail",
          file |-> w.file, result |-> w.ok, changes |-> plan.changes]
    ELSE [outcome |-> plan.stage, file |-> f,
          result |-> plan.stage = "nochange", changes |-> plan.changes]

(***************************************************************************)
(* Settings Merger - Gateway                                               *)
(***************************************************************************)
DefaultPort == 18789
MinPort == 1
MaxPort == 65535

GwPath == <<"gateway">>
ControlUiPath == <<"gateway", "controlUi">>
ChatPath == <<"gateway", "http", "endpoints", "chatCompletions">>

\* a variant whose port range is one too wide
gateway_args_valid_WidePort(mode, bind_mode, port) ==
    /\ mode \in {"local", "remote"}
    /\ bind_mode \in {"loopback", "lan"}
    /\ ~(port < MinPort \/ port > MaxPort + 1)

\* the three validations, in the order of the code
gateway_args_valid(mode, bind_mode, port) ==
    /\ mode \in {"local", "remote"}
    /\ bind_mode \in {"loopback", "lan"}
    /\ ~(port < MinPort \/ port > MaxPort)

\* a variant that also creates an agents container
gateway_ensure_Agents(cfg) ==
    LET c0 == EnsureMapping(cfg, <<>>, "agents")
        c1 == EnsureMapping(c0, <<>>, "gateway")
        c2 == EnsureMapping(c1, GwPath, "controlUi")
        c3 == EnsureMapping(c2, GwPath, "http")
        c4 == EnsureMapping(c3, <<"gateway", "http">>, "endpoints")
        c5 == EnsureMapping(c4, <<"gateway", "http", "endpoints">>,
                            "chatCompletions")
    IN  c5

\* the containers gateway, controlUi, http, endpoints, chatCompletions
gateway_ensure(cfg) ==
    LET c1 == EnsureMapping(cfg, <<>>, "gateway")
        c2 == EnsureMapping(c1, GwPath, "controlUi")
        c3 == EnsureMapping(c2, GwPath, "http")
        c4 == EnsureMapping(c3, <<"gateway", "http">>, "endpoints")
        c5 == EnsureMapping(c4, <<"gateway", "http", "endpoints">>,
                            "chatCompletions")
    IN  c5

\* the five current values, an absent one as its default
gateway_current(cfg) ==
    [mode |-> PyGet(GetPath(cfg, GwPath), "mode", JStr("")),
     bind |-> PyGet(GetPath(cfg, GwPath), "bind", JStr("")),
     port |-> PyGet(GetPath(cfg, GwPath), "port", JInt(DefaultPort)),
     enabled |-> PyGet(GetPath(cfg, ChatPath), "enabled", JBool(FALSE)),
     allowInsecureAuth |->
        PyGet(GetPath(cfg, ControlUiPath), "allowInsecureAuth", JBool(FALSE))]

\* a variant that stores the desired value whatever the current one is
MergeField_Always(cfg, p, cur, want) ==
    IF cfg = Err \/ cur = Err THEN Err
    ELSE SetPath(cfg, p, want)

\* one managed field: overwrite it when the current value differs
\* (Python !=) from the desired one
MergeField(cfg, p, cur, want) ==
    IF cfg = Err \/ cur = Err THEN Err
    ELSE IF ~PyEq(cur, want) THEN SetPath(cfg, p, want)
    ELSE cfg

\* the change note of one managed field: <<name>> when it differs
FieldNote(name, cur, want) ==
    IF cur # Err /\ ~PyEq(cur, want) THEN <<name>> ELSE <<>>

\* the desired values of a call, as JSON values
gateway_desired(a) ==
    [mode |-> JStr(a.mode), bind |-> JStr(a.bind_mode), port |-> JInt(a.port),
     enabled |-> JBool(a.enable_openai_api),
     allowInsecureAuth |-> JBool(a.allow_insecure_auth)]

\* the five comparisons and assignments
gateway_merge(cfg, a) ==
    LET cur == gateway_current(cfg)
        want == gateway_desired(a)
        c1 == MergeField(cfg, GwPath \o <<"mode">>, cur.mode, want.mode)
        c2 == MergeField(c1, GwPath \o <<"bind">>, cur.bind, want.bind)
        c3 == MergeField(c2, GwPath \o <<"port">>, cur.port, want.port)
        c4 == MergeField(c3, ChatPath \o <<"enabled">>, cur.enabled,
                         want.enabled)
        c5 == MergeField(c4, ControlUiPath \o <<"allowInsecureAuth">>,
                         cur.allowInsecureAuth, want.allowInsecureAuth)
    IN  c5

\* the change list: one note per field that differed, in the code's order
gateway_changes(cfg, a) ==
    LET cur == gateway_current(cfg)
        want == gateway_desired(a)
    IN  FieldNote("mode", cur.mode, want.mode)
        \o FieldNote("bind", cur.bind, want.bind)
        \o FieldNote("port", cur.port, want.port)
        \o FieldNote("chatCompletions.enabled", cur.enabled, want.enabled)
        \o FieldNote("allowInsecureAuth", cur.allowInsecureAuth,
                     want.allowInsecureAuth)

\* the call on file f up to its write: validation, read, merge
gateway_plan(f, a) ==
    IF ~gateway_args_valid(a.mode, a.bind_mode, a.port)
    THEN Plan("invalid", Err, <<>>)
    ELSE LET cfg == gateway_ensure(config_or_empty(f)) IN
         plan_of(gateway_merge(cfg, a), gateway_changes(cfg, a))

(***************************************************************************)
(* Settings Merger - Memory                                                *)
(***************************************************************************)
MaxResults == 6
MinScoreHundredths == 35
VectorWeightHundredths == 70
TextWeightHundredths == 30
CacheMaxEntries == 50000
SoftThresholdTokens == 40000
Mem0TopK == 5

Mem0Id == "openclaw-mem0"
CogneeId == "memory-cognee"
Mem0DefaultUrl == "https://api.mem0.ai"
CogneeDefaultUrl == "https://api.cognee.ai"
Mem0DefaultUser == "ha-user"

DefaultsPath == <<"agents", "defaults">>
MemoryPath == <<"agents", "defaults", "memorySearch">>
CompactionPath == <<"agents", "defaults", "compaction">>
PluginsPath == <<"plugins">>
EntriesPath == <<"plugins", "entries">>

\* the keys of memorySearch the add-on does not manage
UserOwned == <<"provider", "model", "remote", "fallback">>

\* `x or d` for strings
OrDefault(x, d) == IF x # "" THEN x ELSE d

\* a variant that resets the container even when it is there
SetDefault_Reset(cfg, p, key) ==
    LET c == GetPath(cfg, p) IN
    IF cfg = Err \/ c = Err \/ c.t # "map" THEN Err
    ELSE SetPath(cfg, p \o <<key>>, EmptyMap)

\* c.setdefault(key, {}) on the container at path p of cfg: only a dict has
\* the method; an existing value is kept whatever it is
SetDefault(cfg, p, key) ==
    LET c == GetPath(cfg, p) IN
    IF cfg = Err \/ c = Err \/ c.t # "map" THEN Err
    ELSE IF key \in DOMAIN c.v THEN cfg
    ELSE SetPath(cfg, p \o <<key>>, EmptyMap)

\* the add-on-managed memorySearch block
desired_memory(enable_memory, session_indexing) ==
    JMap([enabled |-> JBool(enable_memory),
          query |-> JMap([maxResults |-> JInt(MaxResults),
                          minScore |-> JFlt(MinScoreHundredths),
                          hybrid |-> JMap([enabled |-> JBool(TRUE),
                                 vectorWeight |-> JFlt(VectorWeightHundredths),
                                 textWeight |-> JFlt(TextWeightHundredths)])]),
          cache |-> JMap([enabled |-> JBool(TRUE),
                          maxEntries |-> JInt(CacheMaxEntries)]),
          sync |-> JMap([onSessionStart |-> JBool(TRUE),
                         onSearch |-> JBool(TRUE),
                         watch |-> JBool(TRUE)]),
          sources |-> JList(IF session_indexing
                            THEN <<JStr("memory"), JStr("sessions")>>
                            ELSE <<JStr("memory")>>),
          experimental |-> JMap([sessionMemory |-> JBool(session_indexing)])])

\* a variant that carries nothing over
preserve_user_keys_None(desired, current, keys) ==
    IF current = Err \/ ~PyIterable(current) THEN Err ELSE desired

\* `for key in (...): if key in current_memory:
\*      desired_memory[key] = current_memory[key]`
RECURSIVE preserve_user_keys(_, _, _)
preserve_user_keys(desired, current, keys) ==
    IF keys = <<>> \/ desired = Err THEN desired
    ELSE IF current = Err \/ ~PyIterable(current) THEN Err
    ELSE preserve_user_keys(
            IF PyIn(Head(keys), current)
            THEN PySetItem(desired, Head(keys), PyGetItem(current, Head(keys)))
            ELSE desired,
            current, Tail(keys))

desired_compaction ==
    JMap([memoryFlush |-> JMap([enabled |-> JBool(TRUE),
                    softThresholdTokens |-> JInt(SoftThresholdTokens)])])

desired_mem0(a) ==
    JMap([enabled |-> JBool(TRUE),
          config |-> JMap([apiKey |-> JStr(a.mem0_api_key),
                baseUrl |-> JStr(OrDefault(a.mem0_base_url, Mem0DefaultUrl)),
                userId |-> JStr(OrDefault(a.mem0_user_id, Mem0DefaultUser)),
                autoRecall |-> JBool(TRUE),
                autoCapture |-> JBool(TRUE),
                topK |-> JInt(Mem0TopK)])])

desired_cognee(a) ==
    JMap([enabled |-> JBool(TRUE),
          config |-> JMap([baseUrl |->
                    JStr(OrDefault(a.cognee_base_url, CogneeDefaultUrl)),
                apiKey |-> JStr(a.cognee_api_key)])])

\* A step of the memory merge works on st = [cfg, changes]: the document so
\* far (Err once an exception was raised) and the change list so far.
Raised(st) == [cfg |-> Err, changes |-> st.changes]
Changed(st, cfg, note) ==
    IF cfg = Err THEN Raised(st)
    ELSE [cfg |-> cfg, changes |-> Append(st.changes, note)]

\* a variant that lays the desired block over the current one, keeping the
\* fields of the current block that the desired one does not have
replace_block_Overlay(st, p, current, desired, note) ==
    LET overlay ==
            IF current.t = "map" /\ desired.t = "map"
            THEN JMap([k \in DOMAIN current.v \cup DOMAIN desired.v |->
                        IF k \in DOMAIN desired.v THEN desired.v[k]
                        ELSE current.v[k]])
            ELSE desired
    IN  IF st.cfg = Err \/ current = Err \/ desired = Err THEN Raised(st)
        ELSE IF ~PyEq(current, desired)
        THEN Changed(st, SetPath(st.cfg, p, overlay), note)
        ELSE st

\* `if current != desired: defaults[key] = desired; changes.append(note)`
replace_block(st, p, current, desired, note) ==
    IF st.cfg = Err \/ current = Err \/ desired = Err THEN Raised(st)
    ELSE IF ~PyEq(current, desired)
    THEN Changed(st, SetPath(st.cfg, p, desired), note)
    ELSE st

\* the memorySearch and compaction blocks of agents.defaults
memory_blocks(cfg0, a) ==
    LET c1 == SetDefault(cfg0, <<>>, "agents")
        c2 == SetDefault(c1, <<"agents">>, "defaults")
        defaults == GetPath(c2, DefaultsPath)
        current_memory == PyGet(defaults, "memorySearch", EmptyMap)
        desired == preserve_user_keys(
                      desired_memory(a.enable_memory, a.session_indexing),
                      current_memory, UserOwned)
        current_compaction == PyGet(defaults, "compaction", EmptyMap)
        s0 == [cfg |-> c2, changes |-> <<>>]
        s1 == replace_block(s0, MemoryPath, current_memory, desired,
                            "memorySearch")
        s2 == replace_block(s1, CompactionPath, current_compaction,
                            desired_compaction, "compaction")
    IN  s2

\* `plugins = cfg.setdefault("plugins", {})`
\* `entries = plugins.setdefault("entries", {})`
plugin_containers(st) ==
    LET c1 == SetDefault(st.cfg, <<>>, "plugins")
        c2 == SetDefault(c1, PluginsPath, "entries")
    IN  IF c2 = Err THEN Raised(st) ELSE [st EXCEPT !.cfg = c2]

\* a variant whose disabling replaces the entry by a bare disabled one
plugin_entry_Bare(st, id, api_key, desired) ==
    LET entries == GetPath(st.cfg, EntriesPath)
        entry == PyGetItem(entries, id)
        enabled == PyGet(entry, "enabled", None)
    IN  IF st.cfg = Err \/ entries = Err THEN Raised(st)
        ELSE IF api_key # ""
        THEN replace_block(st, EntriesPath \o <<id>>,
                           PyGet(entries, id, None), desired,
                           "plugins." \o id)
        ELSE IF ~PyIterable(entries) THEN Raised(st)
        ELSE IF PyIn(id, entries)
        THEN IF enabled = Err THEN Raised(st)
             ELSE IF enabled # JBool(FALSE)
             THEN Changed(st, SetPath(st.cfg, EntriesPath \o <<id>>,
                                      JMap([enabled |-> JBool(FALSE)])),
                          "plugins." \o id \o " disabled")
             ELSE st
        ELSE st

\* one plugin: with an API key the entry is replaced when it differs from
\* the desired one; without a key an existing entry is disabled in place
plugin_entry(st, id, api_key, desired) ==
    LET entries == GetPath(st.cfg, EntriesPath)
        entry == PyGetItem(entries, id)
        enabled == PyGet(entry, "enabled", None)
    IN  IF st.cfg = Err \/ entries = Err THEN Raised(st)
        ELSE IF api_key # ""
        THEN replace_block(st, EntriesPath \o <<id>>,
                           PyGet(entries, id, None), desired,
                           "plugins." \o id)
        ELSE IF ~PyIterable(entries) THEN Raised(st)
        ELSE IF PyIn(id, entries)
        THEN IF enabled = Err THEN Raised(st)
             ELSE IF enabled # JBool(FALSE)
             THEN Changed(st, SetPath(st.cfg, EntriesPath \o <<id, "enabled">>,
                                      JBool(FALSE)),
                          "plugins." \o id \o " disabled")
             ELSE st
        ELSE st

\* a variant that leaves the empty containers in place
cleanup_containers_Skip(st) ==
    IF st.cfg = Err \/ GetPath(st.cfg, EntriesPath) = Err THEN Raised(st)
    ELSE st

\* `if not entries: del plugins["entries"]`
\* `if not plugins: del cfg["plugins"]`
cleanup_containers(st) ==
    LET entries == GetPath(st.cfg, EntriesPath)
        c1 == IF entries = Err THEN Err
              ELSE IF ~Truthy(entries)
              THEN SetPath(st.cfg, PluginsPath,
                           PyDelItem(GetPath(st.cfg, PluginsPath), "entries"))
              ELSE st.cfg
        plugins == GetPath(c1, PluginsPath)
        c2 == IF c1 = Err \/ plugins = Err THEN Err
              ELSE IF ~Truthy(plugins) THEN PyDelItem(c1, "plugins")
              ELSE c1
    IN  IF st.cfg = Err \/ c2 = Err THEN Raised(st)
        ELSE [st EXCEPT !.cfg = c2]

\* the merge of apply_memory_settings: document and change list
memory_merge(cfg0, a) ==
    LET s2 == memory_blocks(cfg0, a)
        s3 == plugin_containers(s2)
        s4 == plugin_entry(s3, Mem0Id, a.mem0_api_key, desired_mem0(a))
        s5 == plugin_entry(s4, CogneeId, a.cognee_api_key, desired_cognee(a))
    IN  cleanup_containers(s5)

\* the call on file f up to its write: read, merge
memory_plan(f, a) ==
    LET st == memory_merge(config_or_empty(f), a) IN
    plan_of(st.cfg, st.changes)

(***************************************************************************)
(* get / set of one gateway key                                            *)
(***************************************************************************)
\* set_gateway_setting: the gateway mapping is created when missing, the
\* key is assigned, and the document is always written
set_plan(f, key, value) ==
    LET c1 == EnsureMapping(config_or_empty(f), <<>>, "gateway")
        c2 == IF c1 = Err THEN Err ELSE SetPath(c1, <<"gateway", key>>, value)
    IN  IF c2 = Err THEN Plan("crash", Err, <<>>) ELSE Plan("write", c2, <<>>)

\* get_gateway_setting(key): `cfg.get("gateway", {}).get(key, default)`,
\* the default (None) when there is no usable file
get_value(f, key) ==
    LET cfg == read_config(f) IN
    IF cfg = Err THEN Err
    ELSE IF cfg = None THEN None
    ELSE PyGet(PyGet(cfg, "gateway", EmptyMap), key, None)

(***************************************************************************)
(* Inputs of the calls                                                     *)
(***************************************************************************)
GatewayCall(m, b, p, e, i) ==
    [mode |-> m, bind_mode |-> b, port |-> p, enable_openai_api |-> e,
     allow_insecure_auth |-> i]

\* the valid calls: every field at its default, each field changed alone,
\* every field changed, and the two boundary ports
BaseGatewayCall == GatewayCall("local", "loopback", DefaultPort, FALSE, FALSE)

ValidGatewayCalls ==
    {BaseGatewayCall,
     [BaseGatewayCall EXCEPT !.mode = "remote"],
     [BaseGatewayCall EXCEPT !.bind_mode = "lan"],
     [BaseGatewayCall EXCEPT !.port = MinPort],
     [BaseGatewayCall EXCEPT !.enable_openai_api = TRUE],
     [BaseGatewayCall EXCEPT !.allow_insecure_auth = TRUE],
     GatewayCall("remote", "lan", MaxPort, TRUE, TRUE),
     GatewayCall("remote", "lan", 9999, FALSE, TRUE)}

\* one call per way of being invalid
InvalidGatewayCalls ==
    {GatewayCall("invalid", "loopback", DefaultPort, FALSE, FALSE),
     GatewayCall("local", "invalid", DefaultPort, TRUE, FALSE),
     GatewayCall("local", "loopback", MinPort - 1, FALSE, TRUE),
     GatewayCall("remote", "lan", 0 - 1, TRUE, TRUE),
     GatewayCall("remote", "lan", MaxPort + 1, FALSE, FALSE)}

GatewayCalls == ValidGatewayCalls \cup InvalidGatewayCalls

MemoryCall(e, s, k0, u0, id0, k1, u1) ==
    [enable_memory |-> e, session_indexing |-> s, mem0_api_key |-> k0,
     mem0_base_url |-> u0, mem0_user_id |-> id0, cognee_api_key |-> k1,
     cognee_base_url |-> u1]

\* the plugin arguments <<mem0 key, mem0 URL, mem0 user, cognee key, cognee
\* URL>>: no key; a key with the default or a custom base URL and user id
PluginOptions ==
    {<<"", "", "", "", "">>,
     <<"m0-key-123", "", "", "", "">>,
     <<"m0-key-123", "https://my-mem0.local", "admin", "cog-key-456", "">>,
     <<"m0-key-123", "", "admin", "", "">>,
     <<"", "", "", "cog-key-456", "https://my-cognee.local">>}

\* every combination of the two flags without plugins, and every plugin
\* option with both flags set
MemoryCalls ==
    {MemoryCall(e, s, "", "", "", "", "") : e \in BOOLEAN, s \in BOOLEAN}
    \cup {MemoryCall(TRUE, TRUE, o[1], o[2], o[3], o[4], o[5]) :
            o \in PluginOptions}

SetKeys == {"port", "auth"}
SetValues == {JInt(0), JStr("token")}
GetKeys == {"port", "mode"}

(***************************************************************************)
(* The files a call may start from                                         *)
(***************************************************************************)
Absent == [t |-> "absent", v |-> "absent"]

\* a top-level document with the given gateway, agents, plugins and
\* customKey values, a key being left out when its value is Absent
MkDoc(gw, ag, pl, cu) ==
    LET vals == [gateway |-> gw, agents |-> ag, plugins |-> pl,
                 customKey |-> cu]
    IN  JMap([k \in {kk \in DOMAIN vals : vals[kk] # Absent} |-> vals[k]])

Auth == JMap([mode |-> JStr("token"), token |-> JStr("abc123")])

GwVariants ==
    {Absent,
     EmptyMap,
     \* the managed fields at their defaults, with an unmanaged sibling
     JMap([mode |-> JStr("local"), bind |-> JStr("loopback"),
           port |-> JInt(DefaultPort), auth |-> Auth]),
     \* every container present, with unmanaged siblings at each level
     JMap([mode |-> JStr("remote"), bind |-> JStr("lan"), port |-> JInt(9999),
           auth |-> Auth,
           controlUi |-> JMap([allowInsecureAuth |-> JBool(TRUE),
                               theme |-> JStr("dark")]),
           http |-> JMap([cors |-> JBool(TRUE),
                endpoints |-> JMap([
                    responses |-> JMap([enabled |-> JBool(TRUE)]),
                    chatCompletions |-> JMap([enabled |-> JBool(TRUE),
                                              rateLimit |-> JInt(10)])])])]),
     \* values of other types that Python compares equal to desired ones
     JMap([mode |-> JStr("local"), bind |-> JStr("lan"),
           port |-> JBool(TRUE),
           controlUi |-> JMap([allowInsecureAuth |-> JInt(0)]),
           http |-> JMap([endpoints |-> JMap([
                    chatCompletions |-> JMap([enabled |-> JInt(1)])])])]),
     \* values that are not mappings
     JStr("off"),
     JMap([mode |-> JStr("local"), controlUi |-> None]),
     JMap([bind |-> JStr("lan"), http |-> JList(<<JStr("endpoints")>>)])}

UserMemory ==
    JMap([enabled |-> JBool(TRUE), provider |-> JStr("openai"),
          model |-> JStr("text-embedding-3-small"),
          remote |-> JMap([apiKey |-> JStr("sk-test")]),
          fallback |-> JStr("none")])

Defaults(ms, co) ==
    LET vals == [workspace |-> JStr("/config/clawd"), memorySearch |-> ms,
                 compaction |-> co]
    IN  JMap([defaults |->
            JMap([k \in {kk \in DOMAIN vals : vals[kk] # Absent} |-> vals[k]]),
         workspace |-> JStr("/tmp")])

AgVariants ==
    {Absent,
     EmptyMap,
     Defaults(Absent, Absent),
     \* user-owned keys only
     Defaults(UserMemory, Absent),
     \* already as desired
     Defaults(desired_memory(TRUE, TRUE), desired_compaction),
     \* as desired, with keys the add-on does not know
     Defaults(PySetItem(PySetItem(desired_memory(TRUE, FALSE), "provider",
                                  JStr("local")),
                        "chunking", JMap([tokens |-> JInt(400)])),
              PySetItem(desired_compaction, "mode", JStr("safeguard"))),
     \* as desired up to Python's equality of numbers
     Defaults(PySetItem(desired_memory(FALSE, FALSE), "enabled", JInt(0)),
              desired_compaction),
     \* values that are not mappings
     Defaults(JStr("off"), JList(<<>>)),
     Defaults(None, Absent),
     Defaults(JList(<<JStr("model")>>), desired_compaction),
     None,
     JMap([defaults |-> JStr("none")])}

Entries(m0, cg, ot) ==
    LET vals == (Mem0Id :> m0) @@ (CogneeId :> cg)
                @@ ("some-other-plugin" :> ot)
    IN  JMap([k \in {kk \in DOMAIN vals : vals[kk] # Absent} |-> vals[k]])

OldEntry(en) ==
    JMap([enabled |-> en, config |-> JMap([apiKey |-> JStr("old")]),
          note |-> JStr("keep")])
OtherPlugin ==
    JMap([enabled |-> JBool(TRUE), config |-> JMap([foo |-> JStr("bar")])])

PlVariants ==
    {Absent,
     EmptyMap,
     JMap([entries |-> EmptyMap]),
     JMap([slots |-> JMap([memory |-> JStr("none")])]),
     JMap([entries |-> EmptyMap, slots |-> JMap([memory |-> JStr("none")])]),
     JMap([entries |-> Entries(Absent, Absent, OtherPlugin)]),
     JMap([entries |-> Entries(OldEntry(JBool(TRUE)), Absent, OtherPlugin)]),
     JMap([entries |-> Entries(Absent, OldEntry(JBool(TRUE)), Absent)]),
     JMap([entries |-> Entries(OldEntry(JBool(FALSE)), OldEntry(JInt(0)),
                               Absent)]),
     JMap([entries |-> Entries(
            JMap([config |-> JMap([apiKey |-> JStr("old")])]),
            desired_cognee(MemoryCall(TRUE, TRUE, "", "", "",
                                      "cog-key-456", "")),
            Absent)]),
     \* the entry that enabling mem0 builds, with the number 1 for true
     JMap([entries |-> Entries(
            JMap([enabled |-> JInt(1),
                  config |-> desired_mem0(MemoryCall(TRUE, TRUE,
                              "m0-key-123", "", "", "", "")).v.config]),
            Absent, Absent)]),
     \* values that are not mappings
     JMap([entries |-> JStr("")]),
     JMap([entries |-> Entries(JStr("x"), None, Absent)]),
     JList(<<>>)}

\* an unmanaged sibling of every managed sub-tree goes with each variant
InitDocs ==
    {MkDoc(g, Defaults(UserMemory, Absent),
           JMap([entries |-> Entries(Absent, Absent, OtherPlugin)]),
           JStr("customValue")) : g \in GwVariants}
    \cup {MkDoc(JMap([mode |-> JStr("local"), auth |-> Auth]), a, Absent,
                JStr("customValue")) : a \in AgVariants}
    \cup {MkDoc(Absent, Defaults(Absent, Absent), p, Absent) :
            p \in PlVariants}
    \* the memory blocks as desired next to an empty plugins scaffolding
    \cup {MkDoc(Absent, Defaults(desired_memory(TRUE, TRUE),
                                 desired_compaction), p, Absent) :
            p \in {EmptyMap, JMap([entries |-> EmptyMap])}}
    \cup {EmptyMap, None, JList(<<JStr("gateway")>>), JInt(7)}

InitFiles ==
    {MissingFile, CorruptFile, UndecodableFile}
    \cup {JsonFile("other", d) : d \in InitDocs}

(***************************************************************************)
(* Command line.  An argument that main converts (int(), .lower()) is a    *)
(* text: the sequence of its characters.  An argument that main passes on  *)
(* or compares as it is, the command included, is a string.                *)
(***************************************************************************)
Digit == <<"0", "1", "2", "3", "4", "5", "6", "7", "8", "9">>
UpperCase == <<"A", "B", "C", "D", "E", "F", "G", "H", "I", "J", "K", "L", "M",
               "N", "O", "P", "Q", "R", "S", "T", "U", "V", "W", "X", "Y", "Z">>
LowerCase == <<"a", "b", "c", "d", "e", "f", "g", "h", "i", "j", "k", "l", "m",
               "n", "o", "p", "q", "r", "s", "t", "u", "v", "w", "x", "y", "z">>

IsDigit(c) == \E i \in DOMAIN Digit : Digit[i] = c
DigitValue(c) == (CHOOSE i \in DOMAIN Digit : Digit[i] = c) - 1

\* the string of a text
RECURSIVE Join(_)
Join(t) == IF t = <<>> THEN "" ELSE Head(t) \o Join(Tail(t))

\* str.lower()
LowerChar(c) ==
    IF \E i \in DOMAIN UpperCase : UpperCase[i] = c
    THEN LowerCase[CHOOSE i \in DOMAIN UpperCase : UpperCase[i] = c]
    ELSE c
lower(t) == [i \in DOMAIN t |-> LowerChar(t[i])]

\* int() first strips the white space around the text
RECURSIVE LStrip(_)
LStrip(t) == IF t # <<>> /\ Head(t) = " " THEN LStrip(Tail(t)) ELSE t
RECURSIVE RStrip(_)
RStrip(t) ==
    IF t # <<>> /\ t[Len(t)] = " " THEN RStrip(SubSeq(t, 1, Len(t) - 1))
    ELSE t

\* the number written by digits with single underscores between them; -1
\* when the text is not of that form
RECURSIVE DigitsValue(_, _, _)
DigitsValue(t, acc, afterDigit) ==
    IF t = <<>> THEN (IF afterDigit THEN acc ELSE -1)
    ELSE IF IsDigit(Head(t))
    THEN DigitsValue(Tail(t), acc * 10 + DigitValue(Head(t)), TRUE)
    ELSE IF Head(t) = "_" /\ afterDigit
    THEN DigitsValue(Tail(t), acc, FALSE)
    ELSE -1

\* a variant of int() that does not strip white space
int_of_NoStrip(t) ==
    LET signed == t # <<>> /\ Head(t) \in {"+", "-"}
        n == DigitsValue(IF signed THEN Tail(t) ELSE t, 0, FALSE)
    IN  IF n = -1 THEN Err
        ELSE JInt(IF signed /\ Head(t) = "-" THEN 0 - n ELSE n)

\* int(text): the integer, or Err for the ValueError
int_of(t) ==
    LET s == RStrip(LStrip(t))
        signed == s # <<>> /\ Head(s) \in {"+", "-"}
        n == DigitsValue(IF signed THEN Tail(s) ELSE s, 0, FALSE)
    IN  IF n = -1 THEN Err
        ELSE JInt(IF signed /\ Head(s) = "-" THEN 0 - n ELSE n)

\* str(n) of an integer
RECURSIVE str_of_int(_)
str_of_int(n) ==
    IF n < 0 THEN "-" \o str_of_int(0 - n)
    ELSE IF n < 10 THEN Digit[n + 1]
    ELSE str_of_int(n \div 10) \o Digit[(n % 10) + 1]

\* what print(value) writes: a string as it is, an integer in decimal, a
\* bool as True or False; the repr of any other value is not spelled out
py_str(x) ==
    CASE x.t = "str" -> x.v
      [] x.t = "int" -> str_of_int(x.v)
      [] x.t = "bool" -> (IF x.v THEN "True" ELSE "False")
      [] OTHER -> "<repr>"

\* `sys.argv[i].lower() == "true"`
is_true(t) == Join(lower(t)) = "true"
\* `_decode`: the sentinel for an empty argument
decode(val) == IF val = "__EMPTY__" THEN "" ELSE val

\* a line printed on one of the two streams
Msg(kind, text) == [kind |-> kind, text |-> text]

\* What main does with an argument vector (sys.argv without the program
\* name) on file f, up to the write: the function it calls with its
\* arguments and plan, or "usage" (a usage message and exit 1), "unknown"
\* (unknown command), "argerror" (int() raised on the port argument)
Dispatch(op, gw, mem, key, value, plan, out) ==
    [op |-> op, gw |-> gw, mem |-> mem, key |-> key, value |-> value,
     plan |-> plan, out |-> out]
NoCall(op, stage) ==
    Dispatch(op, GatewayCall("", "", 0, FALSE, FALSE),
             MemoryCall(FALSE, FALSE, "", "", "", "", ""), "", None,
             Plan(stage, Err, <<>>), None)

main_gateway(argv, f) ==
    LET port == int_of(argv[4])
        a == GatewayCall(argv[2], argv[3], port.v, is_true(argv[5]),
                         is_true(argv[6]))
    IN  IF Len(argv) + 1 # 7 THEN NoCall("usage", "usage")
        ELSE IF port = Err THEN NoCall("argerror", "crash")
        ELSE [NoCall("gateway", "") EXCEPT
                !.gw = a, !.plan = gateway_plan(f, a)]

main_memory(argv, f) ==
    LET a == MemoryCall(is_true(argv[2]), is_true(argv[3]), decode(argv[4]),
                        decode(argv[5]), decode(argv[6]), decode(argv[7]),
                        decode(argv[8]))
    IN  IF Len(argv) + 1 # 9 THEN NoCall("usage", "usage")
        ELSE [NoCall("memory", "") EXCEPT
                !.mem = a, !.plan = memory_plan(f, a)]

main_get(argv, f) ==
    LET x == get_value(f, argv[2]) IN
    IF Len(argv) + 1 # 3 THEN NoCall("usage", "usage")
    ELSE [NoCall("get", IF x = Err THEN "crash" ELSE "nochange") EXCEPT
            !.key = argv[2], !.out = x]

main_set(argv, f) ==
    LET n == int_of(argv[3])
        value == IF n = Err THEN JStr(Join(argv[3])) ELSE n
    IN  IF Len(argv) + 1 # 4 THEN NoCall("usage", "usage")
        ELSE [NoCall("set", "") EXCEPT
                !.key = argv[2], !.value = value,
                !.plan = set_plan(f, argv[2], value)]

main_dispatch(argv, f) ==
    IF Len(argv) + 1 < 2 THEN NoCall("usage", "usage")
    ELSE IF argv[1] = "apply-gateway-settings" THEN main_gateway(argv, f)
    ELSE IF argv[1] = "apply-memory-settings" THEN main_memory(argv, f)
    ELSE IF argv[1] = "get" THEN main_get(argv, f)
    ELSE IF argv[1] = "set" THEN main_set(argv, f)
    ELSE NoCall("unknown", "usage")

\* a variant that exits 0 whenever no usage error or exception occurred
exit_status_IgnoresResult(d, r) ==
    IF d.op \in {"usage", "unknown"} \/ r.outcome = "crash" THEN 1 ELSE 0

\* the exit status: 1 after a usage message and after an exception that
\* nothing catches, 0 after get, else `sys.exit(0 if success else 1)`
exit_status(d, r) ==
    IF d.op \in {"usage", "unknown"} \/ r.outcome = "crash" THEN 1
    ELSE IF d.op = "get" THEN 0
    ELSE IF r.result THEN 0 ELSE 1

\* The process around a call: what main prints and how it ends.  argv is the
\* argument vector, d what main does with it, f the file it started from,
\* r the end of the call, prev the process run before it.  An exception
\* that nothing catches ends the process with a traceback on stderr and
\* exit status 1.
Process(argv, d, f, r, prev) ==
    LET read == \/ d.op \in {"memory", "get", "set"}
                \/ d.op = "gateway" /\ d.plan.stage # "invalid"
        uncaught == r.outcome = "crash"
        applied == d.op \in {"gateway", "memory"}
        stdout ==
            CASE d.op = "usage" -> <<Msg("usage", "")>>
              [] d.op = "unknown" -> <<Msg("unknown", argv[1])>>
              [] r.outcome = "invalid" -> <<Msg("error", "invalid")>>
              [] applied /\ r.outcome = "written" -> <<Msg("info", "updated")>>
              [] applied /\ r.outcome = "nochange" ->
                    <<Msg("info", "already correct")>>
              [] applied /\ r.outcome = "writefail" ->
                    <<Msg("error", "Failed to write config")>>
              [] d.op = "get" /\ ~uncaught /\ d.out # None ->
                    <<Msg("value", py_str(d.out))>>
              [] OTHER -> <<>>
        stderr ==
            (IF read /\ f.state = "corrupt"
             THEN <<Msg("error", "Failed to read config")>> ELSE <<>>)
            \o (IF r.outcome = "writefail"
                THEN <<Msg("error", "Failed to write config")>> ELSE <<>>)
            \o (IF uncaught THEN <<Msg("traceback", "")>> ELSE <<>>)
    IN  [argv |-> argv, op |-> d.op,
         exit |-> exit_status(d, r),
         uncaught |-> uncaught, stdout |-> stdout, stderr |-> stderr,
         read |-> read, wrote |-> r.outcome \in {"written", "writefail"},
         prev |-> [argv |-> prev.argv, op |-> prev.op, exit |-> prev.exit]]

\* the texts of the arguments that main converts
TextTrue == <<"t", "r", "u", "e">>
TextFalse == <<"f", "a", "l", "s", "e">>
TextTrueCapital == <<"T", "r", "u", "e">>
TextYes == <<"y", "e", "s">>
Text18789 == <<"1", "8", "7", "8", "9">>
Text8080 == <<"8", "0", "8", "0">>
Text0 == <<"0">>
Text65536 == <<"6", "5", "5", "3", "6">>
TextAbc == <<"a", "b", "c">>
Text9999 == <<"9", "9", "9", "9">>
Text007 == <<"0", "0", "7">>
TextMinus5 == <<"-", "5">>
TextPadded42 == <<" ", "4", "2">>
Text1_0 == <<"1", "_", "0">>
Text8080x == <<"8", "0", "8", "0", "x">>
TextToken == <<"t", "o", "k", "e", "n">>
TextEmpty == <<>>

\* the values given to `set`
SetTexts ==
    {Text9999, Text007, Text0, TextMinus5, TextPadded42, Text1_0, Text8080x,
     TextToken, TextEmpty}

GatewayArgv(m, b, p, e, i) == <<"apply-gateway-settings", m, b, p, e, i>>
MemoryArgv(e, s, k0, u0, id0, k1, u1) ==
    <<"apply-memory-settings", e, s, k0, u0, id0, k1, u1>>

\* no command, an unknown command, and each command with a wrong number of
\* arguments
UsageArgvs ==
    {<<>>, <<"bogus">>,
     <<"apply-gateway-settings">>,
     <<"apply-gateway-settings", "local", "lan", Text8080, TextTrue>>,
     <<"apply-memory-settings", TextTrue>>,
     <<"get">>, <<"get", "port", "mode">>,
     <<"set", "port">>}

Argvs ==
    UsageArgvs
    \cup {GatewayArgv("local", "loopback", Text18789, TextFalse, TextFalse),
          GatewayArgv("local", "lan", Text8080, TextTrue, TextFalse),
          GatewayArgv("remote", "lan", Text8080, TextTrueCapital, TextYes),
          GatewayArgv("invalid", "lan", Text8080, TextTrue, TextFalse),
          GatewayArgv("local", "lan", Text0, TextTrue, TextFalse),
          GatewayArgv("local", "lan", Text65536, TextTrue, TextFalse),
          GatewayArgv("local", "lan", TextAbc, TextTrue, TextFalse)}
    \cup {MemoryArgv(TextTrue, TextTrue, "__EMPTY__", "__EMPTY__",
                     "__EMPTY__", "__EMPTY__", "__EMPTY__"),
          MemoryArgv(TextFalse, TextFalse, "__EMPTY__", "__EMPTY__",
                     "__EMPTY__", "__EMPTY__", "__EMPTY__"),
          MemoryArgv(TextTrue, TextTrue, "m0-key-123", "__EMPTY__", "admin",
                     "cog-key-456", "__EMPTY__")}
    \cup {<<"get", "port">>, <<"get", "mode">>}
    \cup {<<"set", "port", t>> : t \in SetTexts}
    \cup {<<"set", "mode", TextToken>>}

\* the files a process starts from: none, unusable ones, and documents with
\* and without a gateway mapping, among them values that are not mappings
CliFiles ==
    {MissingFile, CorruptFile, UndecodableFile}
    \cup {JsonFile("other", d) : d \in
            {EmptyMap,
             JList(<<JStr("gateway")>>),
             MkDoc(Absent, Defaults(UserMemory, Absent), Absent,
                   JStr("customValue")),
             MkDoc(JMap([mode |-> JStr("remote"), bind |-> JStr("lan"),
                         port |-> JInt(9999), auth |-> Auth]),
                   Defaults(Absent, Absent),
                   JMap([entries |-> Entries(Absent, Absent, OtherPlugin)]),
                   JStr("customValue")),
             MkDoc(JStr("off"), None, JList(<<>>), Absent)}}

(***************************************************************************)
(* The state machine                                                       *)
(***************************************************************************)
\* number of calls in a run
MaxOps == 2

NoGw == GatewayCall("", "", 0, FALSE, FALSE)
NoMem == MemoryCall(FALSE, FALSE, "", "", "", "", "")

\* the record of a call; `repeat` says that the call before it was the same
\* function with the same arguments and that its write, if any, succeeded
Call(op, gw, mem, key, value, pre, r, out) ==
    [op |-> op, gw |-> gw, mem |-> mem, key |-> key, value |-> value,
     pre |-> pre, outcome |-> r.outcome, result |-> r.result,
     changes |-> r.changes, out |-> out,
     repeat |-> /\ last.op = op /\ last.gw = gw /\ last.mem = mem
                /\ last.outcome # "writefail"]

\* an invocation that has not started; one that has read holds the file
\* it read (pre) and the plan it built from it; readAt and wroteAt are the
\* positions of its read and of its write among the steps of the two
Idle(op) ==
    [op |-> op, pc |-> "start", gw |-> NoGw, mem |-> NoMem,
     pre |-> MissingFile, plan |-> Plan("none", Err, <<>>),
     outcome |-> "none", readAt |-> 0, wroteAt |-> 0]

\* two invocations, one of each apply function, neither started
NoRace ==
    [gateway |-> Idle("gateway"), memory |-> Idle("memory"), clock |-> 0]

\* no process has run
NoProc ==
    [argv |-> <<>>, op |-> "none", exit |-> 0, uncaught |-> FALSE,
     stdout |-> <<>>, stderr |-> <<>>, read |-> FALSE, wrote |-> FALSE,
     prev |-> [argv |-> <<>>, op |-> "none", exit |-> 0]]

Init ==
    /\ file \in InitFiles
    /\ last = [op |-> "none", gw |-> NoGw, mem |-> NoMem, key |-> "",
               value |-> None, pre |-> MissingFile, outcome |-> "none",
               result |-> FALSE, changes |-> <<>>, out |-> None,
               repeat |-> FALSE]
    /\ nops = 0
    /\ proc = NoProc
    /\ race = NoRace

\* one call: the plan is met by an outcome of the file system
Step(op, gw, mem, key, value, plan, out) ==
    \E io \in IoOf(plan) :
        LET r == finish(plan, file, io) IN
        /\ file' = r.file
        /\ last' = Call(op, gw, mem, key, value, file, r, out)
        /\ nops' = nops + 1
        /\ UNCHANGED <<proc, race>>

apply_gateway_settings ==
    /\ nops < MaxOps
    /\ \E a \in GatewayCalls :
        Step("gateway", a, NoMem, "", None, gateway_plan(file, a), None)

apply_memory_settings ==
    /\ nops < MaxOps
    /\ \E a \in MemoryCalls :
        Step("memory", NoGw, a, "", None, memory_plan(file, a), None)

set_gateway_setting ==
    /\ nops < MaxOps
    /\ \E key \in SetKeys, value \in SetValues :
        Step("set", NoGw, NoMem, key, value, set_plan(file, key, value), None)

get_gateway_setting ==
    /\ nops < MaxOps
    /\ \E key \in GetKeys :
        LET x == get_value(file, key) IN
        Step("get", NoGw, NoMem, key, None,
             Plan(IF x = Err THEN "crash" ELSE "nochange", Err, <<>>), x)

Next ==
    \/ apply_gateway_settings
    \/ apply_memory_settings
    \/ set_gateway_setting
    \/ get_gateway_setting

Spec == Init /\ [][Next]_vars

(***************************************************************************)
(* The helper run as a command: one process per step                       *)
(***************************************************************************)
CliInit ==
    /\ file \in CliFiles
    /\ last = [op |-> "none", gw |-> NoGw, mem |-> NoMem, key |-> "",
               value |-> None, pre |-> MissingFile, outcome |-> "none",
               result |-> FALSE, changes |-> <<>>, out |-> None,
               repeat |-> FALSE]
    /\ nops = 0
    /\ proc = NoProc
    /\ race = NoRace

main ==
    /\ nops < MaxOps
    /\ \E argv \in Argvs :
        \E d \in {main_dispatch(argv, file)} :
        \E io \in IoOf(d.plan) :
        \E r \in {finish(d.plan, file, io)} :
            /\ file' = r.file
            /\ last' = Call(d.op, d.gw, d.mem, d.key, d.value, file, r, d.out)
            /\ nops' = nops + 1
            /\ proc' = Process(argv, d, file, r, proc)
            /\ UNCHANGED race

CliNext == main

CliSpec == CliInit /\ [][CliNext]_vars

(***************************************************************************)
(* Two invocations that may overlap.  The program takes no lock: a call    *)
(* reads the file, builds the document to write from what it read, and     *)
(* writes it later; the other invocation's steps can fall in between.      *)
(***************************************************************************)
\* a variant that builds the document again from the file as it is at
\* the write
held_plan_Fresh(v, f) ==
    IF v.op = "gateway" THEN gateway_plan(f, v.gw) ELSE memory_plan(f, v.mem)

\* the document and the change list the call holds between its read and
\* its write: those it built from the file it read
held_plan(v, f) == v.plan

\* the first part of a call, up to the decision to write: validation, read,
\* merge.  A call with nothing to write ends here.
invocation_read(who, gw, mem, plan) ==
    /\ race[who].pc = "start"
    /\ race' = [race EXCEPT
            ![who] = [@ EXCEPT
                !.pc = IF plan.stage = "write" THEN "planned" ELSE "done",
                !.gw = gw, !.mem = mem, !.pre = file, !.plan = plan,
                !.outcome = IF plan.stage = "write" THEN "none"
                            ELSE plan.stage,
                !.readAt = race.clock + 1],
            !.clock = @ + 1]
    /\ UNCHANGED <<file, last, nops, proc>>

\* the second part: write_config and the value returned
invocation_write(who) ==
    /\ race[who].pc = "planned"
    /\ \E io \in IoOutcomes :
        LET r == finish(held_plan(race[who], file), file, io) IN
        /\ file' = r.file
        /\ race' = [race EXCEPT
                ![who] = [@ EXCEPT !.pc = "done", !.outcome = r.outcome,
                                   !.wroteAt = race.clock + 1],
                !.clock = @ + 1]
    /\ UNCHANGED <<last, nops, proc>>

gateway_read ==
    \E a \in GatewayCalls :
        invocation_read("gateway", a, NoMem, gateway_plan(file, a))

gateway_write == invocation_write("gateway")

memory_read ==
    \E a \in MemoryCalls :
        invocation_read("memory", NoGw, a, memory_plan(file, a))

memory_write == invocation_write("memory")

RaceNext ==
    \/ gateway_read
    \/ gateway_write
    \/ memory_read
    \/ memory_write

RaceSpec == Init /\ [][RaceNext]_vars


(***************************************************************************)
(* Vocabulary of the properties                                            *)
(***************************************************************************)
\* the document a call started from and the document on disk after it
PreDoc == last.pre.doc
PostDoc == file.doc
PreIsObject == last.pre.state = "json" /\ PreDoc.t = "map"
PostIsObject == file.state = "json" /\ PostDoc.t = "map"

\* the call's write, if it made one, did not fail
NoWriteFailure == last.outcome # "writefail"
\* the call returned success
Succeeded == last.outcome \in {"nochange", "written"}

IsPrefix(p, q) == Len(p) <= Len(q) /\ SubSeq(q, 1, Len(p)) = p
\* p is a container on the way to a managed path
LeadsToManaged(p, managed) ==
    \E q \in managed : Len(p) < Len(q) /\ IsPrefix(p, q)

\* a container of plugin entries that holds nothing: an empty
\* plugins.entries, or a plugins mapping with at most such an entries
EmptyScaffold(x, q) ==
    IF q = EntriesPath THEN x.t \in {"map", "str", "list"} /\ ~Truthy(x)
    ELSE /\ x.t = "map"
         /\ DOMAIN x.v \subseteq {"entries"}
         /\ "entries" \in DOMAIN x.v =>
                /\ x.v["entries"].t \in {"map", "str", "list"}
                /\ ~Truthy(x.v["entries"])

\* Every key of the mapping pre (the value at path p before the call) that
\* is not a managed path is a key of post (the value at p after it); its
\* value is the same, or, for a container on the way to a managed path,
\* preserved in the same sense.  A container listed in `removable` may be
\* gone when it was empty scaffolding.
RECURSIVE Preserved(_, _, _, _, _)
Preserved(pre, post, p, managed, removable) ==
    \A k \in DOMAIN pre.v :
        LET q == p \o <<k>> IN
        \/ q \in managed
        \/ /\ q \in removable
           /\ EmptyScaffold(pre.v[k], q)
           /\ ~(post.t = "map" /\ k \in DOMAIN post.v)
        \/ /\ post.t = "map"
           /\ k \in DOMAIN post.v
           /\ IF LeadsToManaged(q, managed) /\ pre.v[k].t = "map"
              THEN Preserved(pre.v[k], post.v[k], q, managed, removable)
              ELSE post.v[k] = pre.v[k]

\* every key of the mapping pre outside `owned` is in post with its value
KeptExcept(pre, post, owned) ==
    pre.t = "map" =>
        \A k \in DOMAIN pre.v \ owned :
            post.t = "map" /\ k \in DOMAIN post.v /\ post.v[k] = pre.v[k]

GatewayManaged ==
    {<<"gateway", "mode">>, <<"gateway", "bind">>, <<"gateway", "port">>,
     <<"gateway", "http", "endpoints", "chatCompletions", "enabled">>,
     <<"gateway", "controlUi", "allowInsecureAuth">>}

MemoryManaged ==
    {<<"agents", "defaults", "memorySearch">>,
     <<"agents", "defaults", "compaction">>,
     <<"plugins", "entries", "openclaw-mem0">>,
     <<"plugins", "entries", "memory-cognee">>}

\* the settings the specification calls valid
ValidGatewaySettings(a) ==
    /\ a.mode \in {"local", "remote"}
    /\ a.bind_mode \in {"loopback", "lan"}
    /\ a.port >= 1 /\ a.port <= 65535

\* the plugins of a memory call: entry id, API key, base URL, default URL
PluginIds == {"openclaw-mem0", "memory-cognee"}
KeyOf(id) ==
    IF id = "openclaw-mem0" THEN last.mem.mem0_api_key
    ELSE last.mem.cognee_api_key
UrlOf(id) ==
    IF id = "openclaw-mem0" THEN last.mem.mem0_base_url
    ELSE last.mem.cognee_base_url
DefaultUrlOf(id) ==
    IF id = "openclaw-mem0" THEN "https://api.mem0.ai"
    ELSE "https://api.cognee.ai"
PreEntry(id) == GetPath(PreDoc, <<"plugins", "entries", id>>)
PostEntry(id) == GetPath(PostDoc, <<"plugins", "entries", id>>)
\* the entry existed before the call
HadEntry(id) == PreIsObject /\ PreEntry(id) # Err

PreMemory == GetPath(PreDoc, <<"agents", "defaults", "memorySearch">>)
PostMemory == GetPath(PostDoc, <<"agents", "defaults", "memorySearch">>)
PostCompaction == GetPath(PostDoc, <<"agents", "defaults", "compaction">>)

(***************************************************************************)
(* Properties                                                              *)
(***************************************************************************)

\* C1: idempotence.  When apply_gateway_settings or apply_memory_settings
\* is called again with the same settings right after a call whose write,
\* if any, did not fail, the second call attempts no write and the file is
\* exactly as the first call left it.
C1_Idempotent ==
    (last.op \in {"gateway", "memory"} /\ last.repeat) =>
        /\ last.outcome \in {"invalid", "crash", "nochange"}
        /\ file = last.pre

\* a second gateway call with valid settings after a first one that wrote
C1_Witness ==
    /\ last.op = "gateway" /\ last.repeat /\ nops = 2
    /\ ValidGatewaySettings(last.gw)
    /\ last.outcome = "nochange"
    /\ file.state = "json" /\ file.fmt = "indent2"

\* C2: validation gating.  apply_gateway_settings with a mode outside
\* local/remote, a bind mode outside loopback/lan or a port outside 1..65535
\* returns failure and leaves the file as it was (not created, not
\* modified); every other call passes validation, ports 1 and 65535
\* included.
C2_ValidationGating ==
    last.op = "gateway" =>
        IF ValidGatewaySettings(last.gw)
        THEN last.outcome # "invalid"
        ELSE last.outcome = "invalid" /\ ~last.result /\ file = last.pre

\* port 0 refused with no file: none is created
C2_Witness ==
    /\ last.op = "gateway" /\ last.gw.port = 0
    /\ last.outcome = "invalid" /\ last.pre = MissingFile
    /\ file = MissingFile

\* C3: apply_gateway_settings preserves what it does not manage.  Unless
\* its write failed, every key of the starting document is still present
\* afterwards, and every value other than the five managed fields (and the
\* containers that lead to them) is unchanged.
C3_GatewayPreserves ==
    (last.op = "gateway" /\ NoWriteFailure /\ PreIsObject) =>
        /\ PostIsObject
        /\ Preserved(PreDoc, PostDoc, <<>>, GatewayManaged, {})

\* a written call on a document with unmanaged keys at every level
C3_Witness ==
    /\ last.op = "gateway" /\ last.outcome = "written"
    /\ Len(last.changes) = 5
    /\ PreIsObject
    /\ GetPath(PreDoc, <<"customKey">>) # Err
    /\ GetPath(PreDoc, <<"gateway", "auth">>) # Err
    /\ GetPath(PreDoc, <<"gateway", "controlUi", "theme">>) # Err
    /\ GetPath(PreDoc, <<"gateway", "http", "cors">>) # Err
    /\ GetPath(PreDoc, <<"gateway", "http", "endpoints", "responses">>) # Err
    /\ GetPath(PreDoc, ChatPath \o <<"rateLimit">>) # Err

OwnedMemoryKeys ==
    {"enabled", "query", "cache", "sync", "sources", "experimental"}
OwnedCompactionKeys == {"memoryFlush"}
OwnedEntryKeys == {"enabled", "config"}
UserOwnedKeys == {"provider", "model", "remote", "fallback"}

\* inside the gateway sub-tree, everything but the five managed fields is
\* kept by apply_gateway_settings
GatewayKeepsOtherFields ==
    (last.op = "gateway" /\ NoWriteFailure /\ PreIsObject
        /\ GetPath(PreDoc, GwPath).t = "map") =>
        /\ PostIsObject
        /\ Preserved(GetPath(PreDoc, GwPath), GetPath(PostDoc, GwPath),
                     GwPath, GatewayManaged, {})

\* inside a plugin entry that is disabled (empty API key), everything but
\* `enabled` is kept
DisableKeepsOtherFields ==
    (last.op = "memory" /\ Succeeded) =>
        \A id \in PluginIds :
            (KeyOf(id) = "" /\ HadEntry(id)) =>
                KeptExcept(PreEntry(id), PostEntry(id), {"enabled"})

\* C5 as stated: inside every managed sub-tree the fields the merger does
\* not own, unknown keys included, are still present with the same value
\* after the call.
C5_Original ==
    /\ GatewayKeepsOtherFields
    /\ (last.op = "memory" /\ Succeeded /\ PreIsObject) =>
        /\ KeptExcept(PreMemory, PostMemory, OwnedMemoryKeys)
        /\ KeptExcept(GetPath(PreDoc, CompactionPath), PostCompaction,
                      OwnedCompactionKeys)
        /\ \A id \in PluginIds :
              KeptExcept(PreEntry(id), PostEntry(id), OwnedEntryKeys)

\* C5 (amended): only the gateway sub-tree and a plugin entry being disabled
\* are merged field by field, keeping every other field.  memorySearch,
\* compaction and the entry of a plugin with an API key are whole blocks:
\* after a successful apply_memory_settings they hold the merger's fields
\* and, for memorySearch, the user-owned fields that were there before,
\* and no other field.
C5_OwnedFieldsOnly ==
    /\ GatewayKeepsOtherFields
    /\ DisableKeepsOtherFields
    /\ (last.op = "memory" /\ Succeeded) =>
        /\ PostMemory.t = "map"
        /\ DOMAIN PostMemory.v =
              OwnedMemoryKeys \cup
              {k \in UserOwnedKeys :
                  PreIsObject /\ PreMemory.t = "map" /\ k \in DOMAIN PreMemory.v}
        /\ PostCompaction.t = "map"
        /\ DOMAIN PostCompaction.v = OwnedCompactionKeys
        /\ \A id \in PluginIds :
              KeyOf(id) # "" =>
                  /\ PostEntry(id).t = "map"
                  /\ DOMAIN PostEntry(id).v = OwnedEntryKeys

\* a written call that found an unknown key in memorySearch and in
\* compaction, and an entry with an extra field to replace
C5_Witness ==
    /\ last.op = "memory" /\ last.outcome = "written" /\ PreIsObject
    /\ PreMemory.t = "map" /\ "chunking" \in DOMAIN PreMemory.v
    /\ GetPath(PreDoc, CompactionPath \o <<"mode">>) # Err
    /\ "memorySearch" \in {last.changes[i] : i \in 1..Len(last.changes)}

\* C6: user-owned memorySearch fields.  Unless its write failed,
\* apply_memory_settings leaves each of provider, model, remote, fallback
\* with the value it had in memorySearch, and absent when it was absent.
C6_UserOwnedSurvive ==
    (last.op = "memory" /\ NoWriteFailure) =>
        \A k \in UserOwnedKeys :
            LET had == /\ PreIsObject /\ PreMemory.t = "map"
                       /\ k \in DOMAIN PreMemory.v
                has == /\ PostIsObject /\ PostMemory.t = "map"
                       /\ k \in DOMAIN PostMemory.v
            IN  /\ had => (has /\ PostMemory.v[k] = PreMemory.v[k])
                /\ ~had => ~has

\* memorySearch replaced while it held the four user-owned fields
C6_Witness ==
    /\ last.op = "memory" /\ last.outcome = "written" /\ PreIsObject
    /\ PreMemory.t = "map" /\ UserOwnedKeys \subseteq DOMAIN PreMemory.v
    /\ last.changes[1] = "memorySearch"
    /\ ~last.mem.enable_memory

\* C7: plugin disable.  After a successful apply_memory_settings with an
\* empty API key for a plugin whose entry existed, the entry is still
\* there, its enabled field is false, its other fields are unchanged, and
\* the change list names the plugin exactly when enabled was not already
\* false.
C7_PluginDisable ==
    (last.op = "memory" /\ Succeeded) =>
        \A id \in PluginIds :
            (KeyOf(id) = "" /\ HadEntry(id)) =>
                LET note == "plugins." \o id \o " disabled" IN
                /\ PostIsObject
                /\ PostEntry(id).t = "map"
                /\ GetPath(PostEntry(id), <<"enabled">>) = JBool(FALSE)
                /\ \A k \in DOMAIN PreEntry(id).v \ {"enabled"} :
                      /\ k \in DOMAIN PostEntry(id).v
                      /\ PostEntry(id).v[k] = PreEntry(id).v[k]
                /\ (\E i \in 1..Len(last.changes) : last.changes[i] = note)
                      <=> GetPath(PreEntry(id), <<"enabled">>) # JBool(FALSE)

\* an enabled mem0 entry with a config is disabled
C7_Witness ==
    /\ last.op = "memory" /\ last.outcome = "written"
    /\ last.mem.mem0_api_key = "" /\ HadEntry("openclaw-mem0")
    /\ GetPath(PreEntry("openclaw-mem0"), <<"enabled">>) = JBool(TRUE)
    /\ GetPath(PreEntry("openclaw-mem0"), <<"config">>) # Err
    /\ "plugins.openclaw-mem0 disabled"
          \in {last.changes[i] : i \in 1..Len(last.changes)}

\* C8: no disabled placeholder.  Unless its write failed,
\* apply_memory_settings with an empty API key for a plugin that had no
\* entry creates none; and with both keys empty on a document without a
\* plugins key the document afterwards has no plugins key.
C8_NoPlaceholder ==
    (last.op = "memory" /\ NoWriteFailure) =>
        /\ \A id \in PluginIds :
              (KeyOf(id) = "" /\ ~HadEntry(id)) =>
                  ~(PostIsObject /\ PostEntry(id) # Err)
        /\ (/\ last.mem.mem0_api_key = "" /\ last.mem.cognee_api_key = ""
            /\ ~(PreIsObject /\ "plugins" \in DOMAIN PreDoc.v)) =>
                  ~(PostIsObject /\ "plugins" \in DOMAIN PostDoc.v)

\* a written call without keys on a document without plugins
C8_Witness ==
    /\ last.op = "memory" /\ last.outcome = "written"
    /\ last.mem.mem0_api_key = "" /\ last.mem.cognee_api_key = ""
    /\ PreIsObject /\ "plugins" \notin DOMAIN PreDoc.v
    /\ PostIsObject /\ "agents" \in DOMAIN PostDoc.v

\* C9: plugin enable.  After a successful apply_memory_settings with a
\* non-empty API key for a plugin, its entry has enabled = true and a config
\* with that key, with the supplied base URL or the default one, and for
\* mem0 with the supplied user id or "ha-user", whatever the entry was
\* before.
C9_PluginEnable ==
    (last.op = "memory" /\ Succeeded) =>
        \A id \in PluginIds :
            KeyOf(id) # "" =>
                /\ PostIsObject
                /\ GetPath(PostEntry(id), <<"enabled">>) = JBool(TRUE)
                /\ GetPath(PostEntry(id), <<"config", "apiKey">>)
                      = JStr(KeyOf(id))
                /\ GetPath(PostEntry(id), <<"config", "baseUrl">>)
                      = JStr(IF UrlOf(id) = "" THEN DefaultUrlOf(id)
                             ELSE UrlOf(id))
                /\ id = "openclaw-mem0" =>
                      GetPath(PostEntry(id), <<"config", "userId">>)
                          = JStr(IF last.mem.mem0_user_id = "" THEN "ha-user"
                                 ELSE last.mem.mem0_user_id)

\* a call with the mem0 key returned success and left the number 1 in the
\* entry's enabled field
C9_Witness ==
    /\ last.op = "memory" /\ Succeeded
    /\ last.mem.mem0_api_key = "m0-key-123"
    /\ PostIsObject
    /\ GetPath(PostEntry("openclaw-mem0"), <<"enabled">>) = JInt(1)

\* the five managed gateway fields on disk
PostGatewayField(p) == GetPath(PostDoc, p)
PostMode == PostGatewayField(<<"gateway", "mode">>)
PostBind == PostGatewayField(<<"gateway", "bind">>)
PostPort == PostGatewayField(<<"gateway", "port">>)
PostEnabled == PostGatewayField(ChatPath \o <<"enabled">>)
PostInsecure == PostGatewayField(ControlUiPath \o <<"allowInsecureAuth">>)

\* memorySearch and compaction hold every field of the built-in blocks
CompleteMemoryBlocks ==
    /\ PostMemory.t = "map"
    /\ OwnedMemoryKeys \subseteq DOMAIN PostMemory.v
    /\ GetPath(PostMemory, <<"query", "hybrid", "textWeight">>) # Err
    /\ GetPath(PostMemory, <<"query", "hybrid", "vectorWeight">>) # Err
    /\ GetPath(PostMemory, <<"query", "hybrid", "enabled">>) # Err
    /\ GetPath(PostMemory, <<"query", "maxResults">>) # Err
    /\ GetPath(PostMemory, <<"query", "minScore">>) # Err
    /\ GetPath(PostMemory, <<"cache", "enabled">>) # Err
    /\ GetPath(PostMemory, <<"cache", "maxEntries">>) # Err
    /\ GetPath(PostMemory, <<"sync", "onSessionStart">>) # Err
    /\ GetPath(PostMemory, <<"sync", "onSearch">>) # Err
    /\ GetPath(PostMemory, <<"sync", "watch">>) # Err
    /\ GetPath(PostMemory, <<"experimental", "sessionMemory">>)
          = JBool(last.mem.session_indexing)
    /\ GetPath(PostMemory, <<"enabled">>) = JBool(last.mem.enable_memory)
    /\ GetPath(PostCompaction, <<"memoryFlush", "enabled">>) = JBool(TRUE)
    /\ GetPath(PostCompaction, <<"memoryFlush", "softThresholdTokens">>)
          = JInt(40000)

\* C10 as stated, for calls whose write does not fail: on a missing file
\* an apply call with valid settings succeeds and the file holds all five
\* managed gateway fields with the desired values, or the complete
\* memorySearch and compaction blocks.
C10_Original ==
    (last.pre = MissingFile /\ NoWriteFailure) =>
        /\ (last.op = "gateway" /\ ValidGatewaySettings(last.gw)) =>
              /\ last.result /\ PostIsObject
              /\ PostMode = JStr(last.gw.mode)
              /\ PostBind = JStr(last.gw.bind_mode)
              /\ PostPort = JInt(last.gw.port)
              /\ PostEnabled = JBool(last.gw.enable_openai_api)
              /\ PostInsecure = JBool(last.gw.allow_insecure_auth)
        /\ last.op = "memory" =>
              last.result /\ PostIsObject /\ CompleteMemoryBlocks

\* C10 (amended): on a missing file an apply call with valid settings
\* always attempts a write and returns success exactly when the write
\* succeeds.  The file written by apply_gateway_settings holds mode and bind
\* with the desired values, and each of port, chatCompletions.enabled and
\* allowInsecureAuth with the desired value when that differs from its
\* default (18789, false, false) and not at all otherwise.  The file
\* written by apply_memory_settings holds the complete memorySearch and
\* compaction blocks.
C10_MissingFile ==
    (last.pre = MissingFile) =>
        /\ (last.op = "gateway" /\ ValidGatewaySettings(last.gw)) =>
              /\ last.outcome \in {"written", "writefail"}
              /\ last.result <=> last.outcome = "written"
              /\ last.outcome = "written" =>
                  /\ PostIsObject
                  /\ PostMode = JStr(last.gw.mode)
                  /\ PostBind = JStr(last.gw.bind_mode)
                  /\ PostPort = IF last.gw.port = 18789 THEN Err
                                ELSE JInt(last.gw.port)
                  /\ PostEnabled = IF last.gw.enable_openai_api
                                   THEN JBool(TRUE) ELSE Err
                  /\ PostInsecure = IF last.gw.allow_insecure_auth
                                    THEN JBool(TRUE) ELSE Err
                  /\ GetPath(PostDoc, ChatPath) # Err
                  /\ GetPath(PostDoc, ControlUiPath) # Err
        /\ last.op = "memory" =>
              /\ last.outcome \in {"written", "writefail"}
              /\ last.result <=> last.outcome = "written"
              /\ last.outcome = "written" =>
                    PostIsObject /\ CompleteMemoryBlocks

\* the file created by a gateway call with every setting at its default
C10_Witness ==
    /\ last.pre = MissingFile /\ last.op = "gateway"
    /\ last.outcome = "written"
    /\ last.gw.port = 18789
    /\ ~last.gw.enable_openai_api /\ ~last.gw.allow_insecure_auth
    /\ PostIsObject

\* what the call recorded in `last` does when there is no file at the config
\* path and its write succeeds
OnMissingFile ==
    CASE last.op = "gateway" ->
            finish(gateway_plan(MissingFile, last.gw), MissingFile, "ok")
      [] last.op = "memory" ->
            finish(memory_plan(MissingFile, last.mem), MissingFile, "ok")
      [] last.op = "set" ->
            finish(set_plan(MissingFile, last.key, last.value),
                   MissingFile, "ok")
      [] OTHER ->
            finish(Plan("nochange", Err, <<>>), MissingFile, "ok")

\* a file that is there and cannot be used: its text is not JSON, or its
\* bytes are not text
UnusableFiles == {CorruptFile, UndecodableFile}

\* C11: an unparseable or unreadable file is treated like a missing one.
\* For every operation that starts from such a file and whose write does
\* not fail, the result is the one the operation has on a missing file
\* (for get: the default), nothing is raised, and a write leaves the
\* document built from the empty mapping; without a write the file is left
\* as it was.
C11_UnusableAsMissing ==
    (last.op # "none" /\ last.pre \in UnusableFiles /\ NoWriteFailure) =>
        /\ last.outcome = OnMissingFile.outcome
        /\ last.result = OnMissingFile.result
        /\ last.op = "get" => last.out = get_value(MissingFile, last.key)
        /\ file = IF OnMissingFile.outcome = "written"
                  THEN OnMissingFile.file ELSE last.pre

\* a call raised on a file whose bytes are not UTF-8 text
C11_Witness ==
    /\ last.pre = UndecodableFile
    /\ last.op \in {"gateway", "memory", "set", "get"}
    /\ last.outcome = "crash"
    /\ file = UndecodableFile

(***************************************************************************)
(* Properties of the command line                                          *)
(***************************************************************************)
Printed == {proc.stdout[i] : i \in DOMAIN proc.stdout}
            \cup {proc.stderr[i] : i \in DOMAIN proc.stderr}
\* a message that reports a failure was printed, on either stream
DiagnosticPrinted ==
    \E m \in Printed : m.kind \in {"usage", "unknown", "error", "traceback"}

\* the config file was read and could not be parsed or decoded
UnusableConfigRead == proc.read /\ last.pre \in UnusableFiles
UsageError == proc.op \in {"usage", "unknown"}

\* C12 as stated: whenever a usage error, a validation error, an unusable
\* config file or a write failure occurs in a command, a diagnostic is
\* printed and the exit status is not 0.
C12_Original ==
    (proc.op # "none"
        /\ (\/ UsageError
            \/ last.outcome \in {"invalid", "writefail"}
            \/ UnusableConfigRead)) =>
        DiagnosticPrinted /\ proc.exit # 0

\* C12 (amended): a usage error, a validation error, a write failure and an
\* exception that nothing catches each print a diagnostic and end the
\* process with status 1, and no other process ends with a status other
\* than 0.  A config file that is not valid JSON is reported on stderr and
\* then used as an empty document: the status is 0 for get, and for set
\* and the apply commands it is 0 exactly when the operation succeeded.
C12_ErrorsReported ==
    proc.op # "none" =>
        /\ (UsageError \/ last.outcome \in {"invalid", "writefail", "crash"})
              => (DiagnosticPrinted /\ proc.exit = 1)
        /\ proc.exit # 0
              => (UsageError
                  \/ last.outcome \in {"invalid", "writefail", "crash"})
        /\ (proc.read /\ last.pre = CorruptFile) =>
              /\ Msg("error", "Failed to read config")
                    \in {proc.stderr[i] : i \in DOMAIN proc.stderr}
              /\ ~proc.uncaught
              /\ proc.exit = 0 <=> (proc.op = "get" \/ last.result)

\* an apply command found a file that is not JSON, reported it, replaced
\* it and exited 0; and a write failure ended with status 1
C12_Witness ==
    /\ proc.op = "memory" /\ last.pre = CorruptFile
    /\ last.outcome = "written" /\ proc.exit = 0
    /\ proc.prev.op = "set" /\ proc.prev.exit = 1

\* C13: no invocation ends in an uncaught exception: for every argument
\* vector and every file state, main ends by exiting with status 0 or 1
\* after a reported result, never by an exception.
C13_NoUncaught ==
    proc.op # "none" => (~proc.uncaught /\ proc.exit \in {0, 1})

\* a non-numeric port argument ended the process with a traceback before
\* any file was read
C13_Witness ==
    /\ proc.op = "argerror" /\ proc.uncaught
    /\ ~proc.read
    /\ Msg("traceback", "") \in {proc.stderr[i] : i \in DOMAIN proc.stderr}

\* C14: usage errors.  With no command, an unknown command or a wrong
\* number of arguments, the usage message is on the error stream, the exit
\* status is 1, and the config file is neither read nor written.
C14_UsageErrors ==
    UsageError =>
        /\ \E i \in DOMAIN proc.stderr :
              proc.stderr[i].kind \in {"usage", "unknown"}
        /\ proc.exit = 1
        /\ ~proc.read /\ ~proc.wrote
        /\ file = last.pre

\* a usage message was printed on standard output and nothing on stderr
C14_Witness ==
    /\ UsageError
    /\ proc.stdout # <<>> /\ proc.stdout[1].kind \in {"usage", "unknown"}
    /\ proc.stderr = <<>>
    /\ proc.exit = 1

\* what `set` stores for each text, and what a later `get` prints for it
StoredFor ==
    [t \in SetTexts |->
        CASE t = Text9999 -> JInt(9999)
          [] t = Text007 -> JInt(7)
          [] t = Text0 -> JInt(0)
          [] t = TextMinus5 -> JInt(0 - 5)
          [] t = TextPadded42 -> JInt(42)
          [] t = Text1_0 -> JInt(10)
          [] t = Text8080x -> JStr("8080x")
          [] t = TextToken -> JStr("token")
          [] t = TextEmpty -> JStr("")]
PrintedFor ==
    [t \in SetTexts |->
        CASE t = Text9999 -> "9999"
          [] t = Text007 -> "7"
          [] t = Text0 -> "0"
          [] t = TextMinus5 -> "-5"
          [] t = TextPadded42 -> "42"
          [] t = Text1_0 -> "10"
          [] t = Text8080x -> "8080x"
          [] t = TextToken -> "token"
          [] t = TextEmpty -> ""]

\* C15: set/get round trip.  After a successful `set <key> <value>` the
\* document is an object whose gateway.<key> holds the value, as an integer
\* when the text parses as one and as the string otherwise, every other
\* key of gateway and of the document is as before (the document and the
\* gateway mapping being created when missing), and a following
\* `get <key>` prints that value and exits 0.
C15_SetGetRoundTrip ==
    /\ (proc.op = "set" /\ proc.exit = 0) =>
          LET key == proc.argv[2]
              pre == IF PreIsObject THEN PreDoc ELSE EmptyMap
              preGw == IF "gateway" \in DOMAIN pre.v THEN pre.v["gateway"]
                       ELSE EmptyMap
          IN  /\ PostIsObject
              /\ DOMAIN PostDoc.v = DOMAIN pre.v \cup {"gateway"}
              /\ \A k \in DOMAIN pre.v \ {"gateway"} : PostDoc.v[k] = pre.v[k]
              /\ preGw.t = "map"
              /\ PostDoc.v["gateway"].t = "map"
              /\ DOMAIN PostDoc.v["gateway"].v = DOMAIN preGw.v \cup {key}
              /\ \A k \in DOMAIN preGw.v \ {key} :
                    PostDoc.v["gateway"].v[k] = preGw.v[k]
              /\ PostDoc.v["gateway"].v[key] = StoredFor[proc.argv[3]]
    /\ (/\ proc.op = "get"
        /\ proc.prev.op = "set" /\ proc.prev.exit = 0
        /\ proc.argv[2] = proc.prev.argv[2]) =>
          /\ proc.exit = 0
          /\ proc.stdout = <<Msg("value", PrintedFor[proc.prev.argv[3]])>>

\* `set port 007` on a document with other keys, then `get port` printed 7
C15_Witness ==
    /\ proc.op = "get" /\ proc.argv = <<"get", "port">>
    /\ proc.prev = [argv |-> <<"set", "port", Text007>>, op |-> "set",
                    exit |-> 0]
    /\ proc.stdout = <<Msg("value", "7")>>
    /\ PostIsObject /\ "customKey" \in DOMAIN PostDoc.v
    /\ GetPath(PostDoc, <<"gateway", "auth">>) = Auth

(***************************************************************************)
(* Properties of the mergers, continued                                    *)
(***************************************************************************)
\* C16: no empty plugin scaffolding.  After apply_memory_settings returns
\* success, the document in the file holds neither an empty plugins
\* mapping nor an empty plugins.entries mapping, whatever the starting
\* document and the settings.
C16_NoEmptyScaffolding ==
    (last.op = "memory" /\ Succeeded) =>
        /\ PostIsObject
        /\ GetPath(PostDoc, PluginsPath) # EmptyMap
        /\ GetPath(PostDoc, EntriesPath) # EmptyMap

\* the call found nothing to change and left the empty mapping in the file
C16_Witness ==
    /\ last.op = "memory" /\ last.outcome = "nochange" /\ last.result
    /\ PostIsObject
    /\ \/ GetPath(PostDoc, PluginsPath) = EmptyMap
       \/ GetPath(PostDoc, EntriesPath) = EmptyMap

\* an apply call that got as far as its change list: the arguments were
\* accepted and no exception left the function
ReachedChangeList ==
    /\ last.op \in {"gateway", "memory"}
    /\ last.outcome \notin {"invalid", "crash"}

\* C17: write exactly when something changed.  In apply_gateway_settings
\* and apply_memory_settings the file is written if and only if the change
\* list is not empty.  With an empty change list the call returns success
\* and the file is as it was (a missing file stays missing); with a
\* non-empty one the call returns success exactly when the write succeeded:
\* the file then holds a document in the formatting of write_config, and
\* after a failed write the call returns failure.
C17_WriteIffChanged ==
    ReachedChangeList =>
        /\ (last.changes = <<>>) <=> (last.outcome = "nochange")
        /\ (last.changes # <<>>) <=> (last.outcome \in {"written", "writefail"})
        /\ (last.changes = <<>>) => (last.result /\ file = last.pre)
        /\ (last.changes # <<>>) =>
              /\ last.result <=> (last.outcome = "written")
              /\ last.result =>
                    /\ file.state = "json" /\ file.fmt = "indent2"
                    /\ file # last.pre
              /\ ~last.result => file \in {last.pre, CorruptFile}

\* a call with changes whose write failed
C17_Witness ==
    /\ ReachedChangeList
    /\ last.changes # <<>>
    /\ last.outcome = "writefail"
    /\ ~last.result

\* the documents a call read and left, an unusable or missing file as {}
PreCfg == config_or_empty(last.pre)
PostCfg == config_or_empty(file)

\* the value at a path of the document read, an absent one as its default
CurrentOr(p, dflt) ==
    IF HasPath(PreCfg, p) THEN GetPath(PreCfg, p) ELSE dflt

\* how often a note occurs in the change list
NoteCount(name) ==
    Cardinality({i \in DOMAIN last.changes : last.changes[i] = name})

\* one managed field: a note exactly when the current value is another
\* value than the desired one; with a note the field holds the desired
\* value afterwards, without one it is as it was
FieldRule(name, p, dflt, want) ==
    /\ NoteCount(name) = (IF CurrentOr(p, dflt) # want THEN 1 ELSE 0)
    /\ NoteCount(name) = 1 => GetPath(PostCfg, p) = want
    /\ NoteCount(name) = 0 => GetPath(PostCfg, p) = GetPath(PreCfg, p)

GatewayNotes ==
    {"mode", "bind", "port", "chatCompletions.enabled", "allowInsecureAuth"}

\* C18: change notes of apply_gateway_settings.  After a call that returned
\* success the change list holds exactly one note for each of the five
\* managed fields whose current value (an absent one counted as "" for
\* mode and bind, 18789 for port, false for enabled and allowInsecureAuth)
\* is not the desired value, and no other note; the fields with a note hold
\* the desired value, the others are as they were.
C18_ChangeNotes ==
    (last.op = "gateway" /\ Succeeded) =>
        LET want == gateway_desired(last.gw) IN
        /\ \A i \in DOMAIN last.changes : last.changes[i] \in GatewayNotes
        /\ FieldRule("mode", <<"gateway", "mode">>, JStr(""), want.mode)
        /\ FieldRule("bind", <<"gateway", "bind">>, JStr(""), want.bind)
        /\ FieldRule("port", <<"gateway", "port">>, JInt(DefaultPort),
                     want.port)
        /\ FieldRule("chatCompletions.enabled", ChatPath \o <<"enabled">>,
                     JBool(FALSE), want.enabled)
        /\ FieldRule("allowInsecureAuth",
                     ControlUiPath \o <<"allowInsecureAuth">>,
                     JBool(FALSE), want.allowInsecureAuth)

\* a stored port `true` met the desired port 1: the file was written for
\* another field, there is no note for port and the port is still `true`
C18_Witness ==
    /\ last.op = "gateway" /\ last.outcome = "written"
    /\ GetPath(PreCfg, <<"gateway", "port">>) = JBool(TRUE)
    /\ last.gw.port = 1
    /\ NoteCount("port") = 0
    /\ PostPort = JBool(TRUE)

\* the value at a path of memorySearch in the file
MemoryField(p) == GetPath(PostMemory, p)

\* C19: the built-in memory blocks after apply_memory_settings.  After a
\* call that returned success, agents.defaults.memorySearch has enabled =
\* enableMemory, sources = ["memory", "sessions"] when sessionIndexing is
\* true and ["memory"] otherwise, experimental.sessionMemory =
\* sessionIndexing, and the fixed query, hybrid, cache and sync values; and
\* agents.defaults.compaction is {memoryFlush: {enabled: true,
\* softThresholdTokens: 40000}}; whatever the starting document.
C19_MemoryBlocks ==
    (last.op = "memory" /\ Succeeded) =>
        /\ MemoryField(<<"enabled">>) = JBool(last.mem.enable_memory)
        /\ MemoryField(<<"sources">>) =
              JList(IF last.mem.session_indexing
                    THEN <<JStr("memory"), JStr("sessions")>>
                    ELSE <<JStr("memory")>>)
        /\ MemoryField(<<"experimental">>) =
              JMap([sessionMemory |-> JBool(last.mem.session_indexing)])
        /\ MemoryField(<<"query">>) =
              JMap([maxResults |-> JInt(MaxResults),
                    minScore |-> JFlt(MinScoreHundredths),
                    hybrid |-> JMap([enabled |-> JBool(TRUE),
                            vectorWeight |-> JFlt(VectorWeightHundredths),
                            textWeight |-> JFlt(TextWeightHundredths)])])
        /\ MemoryField(<<"cache">>) =
              JMap([enabled |-> JBool(TRUE),
                    maxEntries |-> JInt(CacheMaxEntries)])
        /\ MemoryField(<<"sync">>) =
              JMap([onSessionStart |-> JBool(TRUE), onSearch |-> JBool(TRUE),
                    watch |-> JBool(TRUE)])
        /\ PostCompaction =
              JMap([memoryFlush |-> JMap([enabled |-> JBool(TRUE),
                          softThresholdTokens |-> JInt(SoftThresholdTokens)])])

\* a stored memorySearch.enabled 0 met enableMemory = false: the call
\* returned success and the field is still the number 0
C19_Witness ==
    /\ last.op = "memory" /\ Succeeded
    /\ ~last.mem.enable_memory
    /\ PreIsObject /\ GetPath(PreMemory, <<"enabled">>) = JInt(0)
    /\ MemoryField(<<"enabled">>) = JInt(0)

(***************************************************************************)
(* Properties of overlapping invocations                                   *)
(***************************************************************************)
\* both invocations had changes and wrote them
BothWrote ==
    /\ race.gateway.outcome = "written"
    /\ race.memory.outcome = "written"

\* both read the file before either wrote it
Overlapped ==
    /\ BothWrote
    /\ race.gateway.readAt < race.memory.wroteAt
    /\ race.memory.readAt < race.gateway.wroteAt

\* one read after the other one wrote
OneAfterTheOther ==
    /\ BothWrote
    /\ \/ race.gateway.wroteAt < race.memory.readAt
       \/ race.memory.wroteAt < race.gateway.readAt

FirstWriter ==
    IF race.gateway.wroteAt < race.memory.wroteAt
    THEN race.gateway ELSE race.memory
LastWriter ==
    IF race.gateway.wroteAt < race.memory.wroteAt
    THEN race.memory ELSE race.gateway

\* the sub-trees an invocation changes
PartOf(op, doc) ==
    IF op = "gateway" THEN <<GetPath(doc, GwPath)>>
    ELSE <<GetPath(doc, <<"agents">>), GetPath(doc, PluginsPath)>>

\* the sub-trees of an invocation hold in the file what it wrote, and that
\* is not what it had read
ChangesPresent(v) ==
    /\ PartOf(v.op, file.doc) = PartOf(v.op, v.plan.cfg)
    /\ PartOf(v.op, file.doc) # PartOf(v.op, config_or_empty(v.pre))

\* the sub-trees of an invocation are in the file as they were in the file
\* it had read, not as it wrote them
ChangesAbsent(v) ==
    /\ PartOf(v.op, file.doc) = PartOf(v.op, config_or_empty(v.pre))
    /\ PartOf(v.op, file.doc) # PartOf(v.op, v.plan.cfg)

\* C20: lost update.  When an apply_gateway_settings and an
\* apply_memory_settings invocation both have changes and both read the
\* file before either writes it, the final file is the document of the last
\* writer and the changes of the first writer are absent from it; when one
\* reads after the other wrote, the changes of both are in the final file.
C20_LostUpdate ==
    /\ Overlapped =>
          /\ file = JsonFile("indent2", LastWriter.plan.cfg)
          /\ ChangesPresent(LastWriter)
          /\ ChangesAbsent(FirstWriter)
    /\ OneAfterTheOther =>
          /\ ChangesPresent(race.gateway)
          /\ ChangesPresent(race.memory)

\* both read, then the gateway call wrote, then the memory call wrote: the
\* gateway sub-tree is as it was before the two calls
C20_Witness ==
    /\ Overlapped
    /\ race.gateway.wroteAt < race.memory.wroteAt
    /\ ChangesAbsent(race.gateway)

(***************************************************************************)
(* Properties of sequences of operations                                   *)
(***************************************************************************)
\* a managed field of the file is the desired value, or is absent while
\* the desired value is the default
PresentOrDefault(p, dflt, want) ==
    \/ GetPath(PostCfg, p) = want
    \/ ~HasPath(PostCfg, p) /\ want = dflt

\* the stored port is a number of the valid range
StoredPortInRange ==
    HasPath(PostCfg, <<"gateway", "port">>) =>
        /\ PostPort.t = "int"
        /\ PostPort.v >= MinPort /\ PostPort.v <= MaxPort

\* C21: the gateway state after a successful apply_gateway_settings(S),
\* whatever operations came before it.  gateway.mode and gateway.bind are
\* present and equal to S.mode and S.bind; each of port,
\* chatCompletions.enabled and allowInsecureAuth is present and equal to
\* the desired value, or absent with the desired value equal to its default
\* (18789, false, false); a stored port is within 1..65535.
C21_EffectiveGateway ==
    (last.op = "gateway" /\ Succeeded) =>
        LET want == gateway_desired(last.gw) IN
        /\ PostMode = want.mode
        /\ PostBind = want.bind
        /\ PresentOrDefault(<<"gateway", "port">>, JInt(DefaultPort),
                            want.port)
        /\ PresentOrDefault(ChatPath \o <<"enabled">>, JBool(FALSE),
                            want.enabled)
        /\ PresentOrDefault(ControlUiPath \o <<"allowInsecureAuth">>,
                            JBool(FALSE), want.allowInsecureAuth)
        /\ StoredPortInRange

\* the file held the port `true`; apply_gateway_settings with port 1
\* returned success and the stored port is still `true`
C21_Witness ==
    /\ last.op = "gateway" /\ Succeeded /\ last.gw.port = 1
    /\ PostPort = JBool(TRUE)

\* the plan of an invocation's call on file f
PlanOn(v, f) ==
    IF v.op = "gateway" THEN gateway_plan(f, v.gw) ELSE memory_plan(f, v.mem)

\* the file after an invocation's call run alone on file f, its write
\* succeeding
Alone(v, f) == finish(PlanOn(v, f), f, "ok").file

\* what a reader of the file gets: whether it parses, and the document
Parsed(f) == [state |-> f.state, doc |-> f.doc]

\* the sub-trees of an invocation in a file
PartIn(op, f) == PartOf(op, config_or_empty(f))

\* invocation a ran to its end before invocation b read, b ran to its end,
\* no write failed and the gateway settings were valid
RanInOrder(a, b) ==
    /\ a.pc = "done" /\ b.pc = "done"
    /\ a.readAt < b.readAt /\ a.wroteAt < b.readAt
    /\ a.outcome # "writefail" /\ b.outcome # "writefail"
    /\ a.outcome # "invalid" /\ b.outcome # "invalid"

\* after a then b from the file a read: the file is the one that b then a
\* leaves; a left b's sub-trees alone and b left a's; b found the changes it
\* finds on the starting file
Independent(a, b) ==
    RanInOrder(a, b) =>
        /\ Parsed(file) = Parsed(Alone(a, Alone(b, a.pre)))
        /\ PartIn(b.op, Alone(a, a.pre)) = PartIn(b.op, a.pre)
        /\ PartIn(a.op, file) = PartIn(a.op, Alone(a, a.pre))
        /\ b.plan.changes = PlanOn(b, a.pre).changes

\* C22: the two apply operations are independent and commute.  For every
\* starting file, valid gateway settings G and memory settings M,
\* apply_gateway_settings(G) then apply_memory_settings(M) leave the same
\* parsed document in the file as the opposite order;
\* apply_memory_settings does not change the gateway sub-tree and
\* apply_gateway_settings does not change agents or plugins, and the
\* second call finds the changes it would have found had it run first.
C22_Commute ==
    /\ Independent(race.gateway, race.memory)
    /\ Independent(race.memory, race.gateway)

\* the memory call wrote its changes, then the gateway call read and wrote
\* its own
C22_Witness ==
    /\ RanInOrder(race.memory, race.gateway)
    /\ race.memory.outcome = "written"
    /\ race.gateway.outcome = "written"
    /\ PartIn("memory", file) # PartIn("memory", race.memory.pre)
    /\ PartIn("gateway", file) # PartIn("gateway", race.memory.pre)

====
